---- MODULE Spec2Model ----
(***************************************************************************)
(* Model of src/src/main.rs: the hotkey-triggered file transfer program.   *)
(*                                                                         *)
(* The receiver (run_server) is two concurrent units, the accept task and  *)
(* the main loop, joined by a bounded mpsc channel.  The sender            *)
(* (run_client, send_file) is a single loop in another process.  Peers     *)
(* that are not this program's sender are arbitrary TCP clients.           *)
(*                                                                         *)
(* Bytes are the integers 0..255, a byte string is a sequence of bytes, an *)
(* Option is a sequence of length 0 (None) or 1 (Some).                    *)
(***************************************************************************)
EXTENDS Integers, Sequences, FiniteSets, TLC

(***************************************************************************)
(* Bounds of the model.                                                    *)
(***************************************************************************)
\* The `as u32` casts of send_file wrap at 2^32.  TLC has no integers that
\* large, so the model wraps at U32Modulus: a file of U32Modulus + 1 bytes
\* stands for a file of 2^32 + 1 bytes.  The 4-byte big-endian fields
\* themselves are as in the source.
U32Modulus == 8
\* Scenario "transfer": the external events of a run (a raw peer connects, a
\* key combination is pressed at the receiver or at the sender), and how
\* many raw peers send something else than the typical frame.
MaxEvents == 3
MaxOther == 1
\* Scenario "intake": raw connections beyond the queue's capacity.
IntakeExtra == 2

(***************************************************************************)
(* Program constants.                                                      *)
(***************************************************************************)
\* mpsc::channel::<TcpStream>(10)
QueueCapacity == 10
\* [0u8; 4]: the width of a length field
LenFieldBytes == 4

None == << >>
Some(x) == << x >>

\* "OK".as_bytes()
OkResponse == << 79, 75 >>
\* "ERROR: No save directory selected".as_bytes()
ErrorResponse ==
    << 69, 82, 82, 79, 82, 58, 32, 78, 111, 32, 115, 97, 118, 101, 32, 100,
       105, 114, 101, 99, 116, 111, 114, 121, 32, 115, 101, 108, 101, 99,
       116, 101, 100 >>

\* default_value of the two roles' hotkeys; a hotkey's id is a function of
\* its modifiers and key code, so the specification string stands for it.
ServerHotkey == "ctrl+shift+r"
ClientHotkey == "ctrl+shift+s"
\* Identifiers an event on the process-wide event channel may carry.
EventIds == { ServerHotkey, ClientHotkey }

(***************************************************************************)
(* Framing: the integer conversions of send_file and run_server.           *)
(***************************************************************************)
\* usize -> u32 (`len() as u32`): the low bits are kept.
as_u32(n) == n % U32Modulus

\* u32::to_be_bytes: most significant byte first.
to_be_bytes(v) ==
    << (v \div 16777216) % 256, (v \div 65536) % 256, (v \div 256) % 256,
       v % 256 >>

\* u32::from_be_bytes(buf) as usize
from_be_bytes(b) == b[1] * 16777216 + b[2] * 65536 + b[3] * 256 + b[4]

IsCont(b) == b >= 128 /\ b <= 191

\* The number of bytes of the well-formed UTF-8 character at the head of s,
\* 0 if there is none (std's UTF-8 validation: no overlong forms, no
\* surrogates, nothing above U+10FFFF).
Utf8CharLen(s) ==
    LET n == Len(s)
        b1 == s[1]
    IN  IF n = 0 THEN 0
        ELSE IF b1 < 128 THEN 1
        ELSE IF b1 >= 194 /\ b1 <= 223
            THEN IF n >= 2 /\ IsCont(s[2]) THEN 2 ELSE 0
        ELSE IF b1 >= 224 /\ b1 <= 239
            THEN IF /\ n >= 3
                    /\ IsCont(s[2])
                    /\ IsCont(s[3])
                    /\ (b1 = 224 => s[2] >= 160)
                    /\ (b1 = 237 => s[2] <= 159)
                 THEN 3 ELSE 0
        ELSE IF b1 >= 240 /\ b1 <= 244
            THEN IF /\ n >= 4
                    /\ IsCont(s[2])
                    /\ IsCont(s[3])
                    /\ IsCont(s[4])
                    /\ (b1 = 240 => s[2] >= 144)
                    /\ (b1 = 244 => s[2] <= 143)
                 THEN 4 ELSE 0
        ELSE 0

RECURSIVE Utf8Valid(_)
Utf8Valid(s) ==
    IF s = << >> THEN TRUE
    ELSE LET k == Utf8CharLen(s)
         IN  IF k = 0 THEN FALSE ELSE Utf8Valid(SubSeq(s, k + 1, Len(s)))

\* Mutant of from_utf8: the bytes are taken as text without validation.
from_utf8_unchecked(bytes) == Some(bytes)

\* String::from_utf8: Some(the same bytes) when they are valid UTF-8.
from_utf8(bytes) == IF Utf8Valid(bytes) THEN Some(bytes) ELSE None

\* OsStr::to_string_lossy: valid text is kept, each ill-formed byte becomes
\* U+FFFD (EF BF BD).
RECURSIVE to_string_lossy(_)
to_string_lossy(s) ==
    IF s = << >> THEN << >>
    ELSE LET k == Utf8CharLen(s)
         IN  IF k = 0
             THEN << 239, 191, 189 >> \o to_string_lossy(Tail(s))
             ELSE SubSeq(s, 1, k) \o to_string_lossy(SubSeq(s, k + 1, Len(s)))

(***************************************************************************)
(* Paths (Unix): byte strings with '/' = 47 as the separator.              *)
(***************************************************************************)
RECURSIVE LastSlash(_)
LastSlash(p) ==
    IF p = << >> THEN 0
    ELSE IF p[Len(p)] = 47 THEN Len(p)
    ELSE LastSlash(SubSeq(p, 1, Len(p) - 1))

\* Path::file_name: the last component, None when it is empty or "..".
file_name(p) ==
    LET comp == SubSeq(p, LastSlash(p) + 1, Len(p))
    IN  IF comp = << >> \/ comp = << 46, 46 >> THEN None ELSE Some(comp)

\* Path::join: an absolute component replaces the path.
join(dir, name) ==
    IF name # << >> /\ name[1] = 47 THEN name
    ELSE IF dir # << >> /\ dir[Len(dir)] = 47 THEN dir \o name
    ELSE dir \o << 47 >> \o name

\* The directory part of a path (without the trailing separator).
Parent(p) == SubSeq(p, 1, LastSlash(p) - 1)

(***************************************************************************)
(* State.                                                                  *)
(***************************************************************************)
VARIABLES
    env,             \* what the environment may still do (scenario budgets)
    conns,           \* the TCP connections, by number in order of connect
    backlog,         \* listener: established connections not yet accepted
    apc,             \* accept task: "accept" or "send"
    tx_socket,       \* accept task: the socket it holds (0: none)
    queue,           \* the mpsc channel's buffer (tx, rx)
    hotkey_channel,  \* receiver process: GlobalHotKeyEvent::receiver()
    save_path,       \* Arc<Mutex<Option<PathBuf>>>
    pc,              \* main loop of run_server: where it is
    cur,             \* main loop of run_server: locals of the transfer
    disk,            \* the receiver's files: path -> content
    last,            \* what the last finished transfer attempt did
    client_channel,  \* sender process: GlobalHotKeyEvent::receiver()
    cpc,             \* main loop of run_client / send_file: where it is
    snd,             \* send_file: its locals
    result,          \* what the last send_file call returned
    hist             \* history: what the calls of the two loops returned

vars ==
    << env, conns, backlog, apc, tx_socket, queue, hotkey_channel, save_path,
       pc, cur, disk, last, client_channel, cpc, snd, result, hist >>

serverVars ==
    << backlog, apc, tx_socket, queue, hotkey_channel, save_path, pc, cur,
       disk, last >>
clientVars == << client_channel, cpc, snd, result >>

(***************************************************************************)
(* The environment: directories, files, peers.                             *)
(***************************************************************************)
\* Directories of the receiver's machine the folder picker can return.
PickDirs == { << 47, 100 >>, << 47, 101 >> }

\* A connection as the two endpoints see it.
\*   inbuf: bytes the peer has written and the receiver has not read
\*   eof:   the peer has closed (or lost) its end
\*   resp:  bytes the receiver has written and the peer has not read
\*   open:  the receiver's TcpStream for it has not been dropped
\*   sent:  (raw peer) the peer has delivered what it is going to send
\*   wire:  history: every byte that has reached the receiver's socket
\*   nread: history: how many bytes the receiver has read from it
NewConn(owner) ==
    [ owner |-> owner, inbuf |-> << >>, eof |-> FALSE, resp |-> << >>,
      open |-> TRUE, sent |-> FALSE, wire |-> << >>, nread |-> 0 ]
\* A connection both ends are done with.
Gone(owner) ==
    [ owner |-> owner, inbuf |-> << >>, eof |-> TRUE, resp |-> << >>,
      open |-> FALSE, sent |-> TRUE, wire |-> << >>, nread |-> 0 ]

\* A frame as a correct peer lays it out (lengths that fit a u32).
Frame(name, data) ==
    to_be_bytes(Len(name)) \o to_be_bytes(Len(data)) \o name \o data

\* What a raw peer sends, and whether it then closes its end.
TypicalPlan == [ data |-> Frame(<< 97 >>, << 1 >>), eof |-> FALSE ]
OtherPlans ==
    { \* an empty payload, and the peer closes its end after the frame
      [ data |-> Frame(<< 97 >>, << >>), eof |-> TRUE ],
      \* closes inside the first length field
      [ data |-> << 0, 0 >>, eof |-> TRUE ],
      \* closes inside the second length field
      [ data |-> to_be_bytes(1) \o << 0 >>, eof |-> TRUE ],
      \* closes inside the name
      [ data |-> to_be_bytes(2) \o to_be_bytes(1) \o << 97 >>, eof |-> TRUE ],
      \* closes inside the payload
      [ data |-> to_be_bytes(1) \o to_be_bytes(2) \o << 97, 1 >>,
        eof |-> TRUE ],
      \* a name that is not UTF-8, in a complete frame
      [ data |-> Frame(<< 255 >>, << 1 >>), eof |-> FALSE ],
      \* an empty name, in a complete frame
      [ data |-> Frame(<< >>, << 1 >>), eof |-> FALSE ],
      \* the name "..", in a complete frame
      [ data |-> Frame(<< 46, 46 >>, << 1 >>), eof |-> FALSE ],
      \* sends the first length field and then neither sends nor closes
      [ data |-> to_be_bytes(1), eof |-> FALSE ] }

NoTransfer ==
    [ socket |-> 0, save_dir |-> None, filename_len |-> 0,
      filedata_len |-> 0, filename |-> << >> ]

NoSend ==
    [ socket |-> 0, path |-> << >>, filename |-> << >>, filedata |-> << >> ]

Scenarios ==
    { [ name |-> "transfer", events |-> MaxEvents, other |-> MaxOther,
        keys |-> MaxEvents, ckeys |-> MaxEvents ],
      [ name |-> "intake", events |-> QueueCapacity + IntakeExtra + 1,
        other |-> 0, keys |-> 1, ckeys |-> 0 ] }

Init ==
    /\ env \in Scenarios
    /\ conns = << >>
    /\ backlog = << >>
    /\ apc = "accept"
    /\ tx_socket = 0
    /\ queue = << >>
    /\ hotkey_channel = << >>
    /\ save_path = None
    /\ pc = "poll_hotkey"
    /\ cur = NoTransfer
    /\ disk = << >>
    /\ last = [ socket |-> 0, save_dir |-> None, outcome |-> "none",
                stage |-> "none",
                response |-> << >>, name |-> << >>, path |-> << >>,
                data |-> << >>, wire |-> << >>, nread |-> 0,
                earlier_failure |-> FALSE ]
    /\ client_channel = << >>
    /\ cpc = "poll_hotkey"
    /\ snd = NoSend
    /\ result = [ value |-> "none", stage |-> "none", response |-> << >> ]
    /\ hist = [ accepted |-> << >>, handed |-> << >>,
                server_event |-> "none", picked |-> None,
                client_event |-> "none", dest_at_connect |-> None ]

\* A peer that is not this program's sender connects.
PeerConnect ==
    /\ env.events > 0
    /\ env' = [ env EXCEPT !.events = @ - 1 ]
    /\ conns' = Append(conns, NewConn("peer"))
    /\ backlog' = Append(backlog, Len(conns) + 1)
    /\ UNCHANGED << apc, tx_socket, queue, hotkey_channel, save_path, pc,
                    cur, disk, last, hist >>
    /\ UNCHANGED clientVars

\* The bytes of a raw peer arrive.  Only read_exact on its socket can tell
\* when they arrived, so they are delivered once the main loop holds it.
PeerSend ==
    /\ cur.socket # 0
    /\ conns[cur.socket].owner = "peer"
    /\ ~conns[cur.socket].sent
    /\ \E p \in { TypicalPlan } \cup OtherPlans :
        /\ p \in OtherPlans => env.other > 0
        /\ env' = IF p \in OtherPlans
                  THEN [ env EXCEPT !.other = @ - 1 ] ELSE env
        /\ conns' = [ conns EXCEPT ![cur.socket] =
                        [ @ EXCEPT !.inbuf = p.data, !.eof = p.eof,
                                   !.sent = TRUE, !.wire = p.data ] ]
    /\ UNCHANGED serverVars
    /\ UNCHANGED clientVars
    /\ UNCHANGED hist

\* A key combination is pressed: an event reaches the receiver process.
ServerKey ==
    /\ env.events > 0 /\ env.keys > 0
    /\ \E id \in EventIds :
        hotkey_channel' = Append(hotkey_channel, id)
    /\ env' = [ env EXCEPT !.events = @ - 1, !.keys = @ - 1 ]
    /\ UNCHANGED << conns, backlog, apc, tx_socket, queue, save_path, pc, cur,
                    disk, last, hist >>
    /\ UNCHANGED clientVars

(***************************************************************************)
(* run_server: the accept task (lines 160-174).                            *)
(***************************************************************************)
\* listener.accept().await returns Ok((socket, addr)).  Its Err arm only
\* logs and loops: it changes no state and needs no action.
Accept ==
    /\ apc = "accept"
    /\ backlog # << >>
    /\ tx_socket' = Head(backlog)
    /\ backlog' = Tail(backlog)
    /\ apc' = "send"
    /\ hist' = [ hist EXCEPT !.accepted = Append(@, Head(backlog)) ]
    /\ UNCHANGED << env, conns, queue, hotkey_channel, save_path, pc, cur,
                    disk, last >>
    /\ UNCHANGED clientVars

\* Mutant of TxSend: the socket is put at the front of the buffer.
TxSend_Front ==
    /\ apc = "send"
    /\ Len(queue) < QueueCapacity
    /\ queue' = << tx_socket >> \o queue
    /\ tx_socket' = 0
    /\ apc' = "accept"
    /\ UNCHANGED << env, conns, backlog, hotkey_channel, save_path, pc, cur,
                    disk, last, hist >>
    /\ UNCHANGED clientVars

\* Mutant of TxSend: a socket that finds the buffer full is dropped
\* (as with try_send).
TxSend_DropsWhenFull ==
    /\ apc = "send"
    /\ queue' = IF Len(queue) < QueueCapacity
                THEN Append(queue, tx_socket) ELSE queue
    /\ tx_socket' = 0
    /\ apc' = "accept"
    /\ UNCHANGED << env, conns, backlog, hotkey_channel, save_path, pc, cur,
                    disk, last, hist >>
    /\ UNCHANGED clientVars

\* Mutant of TxSend: the socket is passed on only once a destination is set.
TxSend_NeedsDestination ==
    /\ apc = "send"
    /\ save_path # None
    /\ Len(queue) < QueueCapacity
    /\ queue' = Append(queue, tx_socket)
    /\ tx_socket' = 0
    /\ apc' = "accept"
    /\ UNCHANGED << env, conns, backlog, hotkey_channel, save_path, pc, cur,
                    disk, last, hist >>
    /\ UNCHANGED clientVars

\* tx_clone.send(socket).await: waits while the buffer is full.  It fails
\* only when rx is closed or dropped, which the main loop never does.
TxSend ==
    /\ apc = "send"
    /\ Len(queue) < QueueCapacity
    /\ queue' = Append(queue, tx_socket)
    /\ tx_socket' = 0
    /\ apc' = "accept"
    /\ UNCHANGED << env, conns, backlog, hotkey_channel, save_path, pc, cur,
                    disk, last, hist >>
    /\ UNCHANGED clientVars

(***************************************************************************)
(* Sockets and files as the receiver uses them.                            *)
(***************************************************************************)
\* Mutant of ReadReturns: a read gives up after a while (a timeout).
ReadReturns_TimesOut(c, n) == TRUE

\* socket.read_exact(buf) returns once buf is full or the stream has ended.
ReadReturns(c, n) == Len(conns[c].inbuf) >= n \/ conns[c].eof
\* ... Ok(_) if buf was filled, Err(UnexpectedEof) if the stream ended first.
ReadOk(c, n) == Len(conns[c].inbuf) >= n

\* The connections cs after the receiver read n bytes from socket c.
Consumed(cs, c, n) ==
    [ cs EXCEPT ![c] =
        [ @ EXCEPT !.inbuf = SubSeq(@, n + 1, Len(@)), !.nread = @ + n ] ]

\* The connections cs after the receiver wrote `response` (possibly
\* nothing) to socket c and dropped it.  What was written stays readable by
\* the sender; a raw peer's connection is of no further interest.
Dropped(cs, c, response) ==
    [ cs EXCEPT ![c] =
        IF @.owner = "peer" \/ @.eof
        THEN Gone(@.owner)
        ELSE [ @ EXCEPT !.resp = @ \o response, !.inbuf = << >>,
                        !.open = FALSE ] ]

\* A directory on the receiver's machine inside a directory the picker can
\* return ("/e/e"): fs::write cannot write a file of that path.
SubDirs == { << 47, 101, 47, 101 >> }

\* fs::write(path, data) succeeds when the path names a file (it has a last
\* component and no trailing separator, and is not a directory) in a
\* directory that exists.
FsWriteOk(path) ==
    /\ file_name(path) # None
    /\ path[Len(path)] # 47
    /\ Parent(path) \in PickDirs
    /\ path \notin SubDirs

\* Mutant of FsWrite: an existing file is kept (as with create_new).
FsWrite_KeepsOld(files, path, data) ==
    [ q \in DOMAIN files \cup { path } |->
        IF q \in DOMAIN files THEN files[q] ELSE data ]

\* fs::write: the file is created or replaced as a whole.
FsWrite(files, path, data) ==
    [ q \in DOMAIN files \cup { path } |->
        IF q = path THEN data ELSE files[q] ]

\* The outcomes of a transfer attempt that are errors.
Failures == { "ProtocolError", "IOError", "NoDestinationConfigured" }

\* The record of a finished transfer attempt on socket c of cs: what the
\* log lines tell, what had arrived on the socket and was read from it, and
\* whether an attempt before this one ended in an error.
Attempt(cs, c, dir, outcome, stage, response, name, path, data) ==
    [ socket |-> c, save_dir |-> dir, outcome |-> outcome, stage |-> stage,
      response |-> response, name |-> name, path |-> path, data |-> data,
      wire |-> cs[c].wire, nread |-> cs[c].nread,
      earlier_failure |-> last.earlier_failure \/ last.outcome \in Failures ]

\* Mutant of DecodeError: the error ends the main loop (as with `?`).
DecodeError_Exits(stage) ==
    /\ last' = Attempt(conns, cur.socket, cur.save_dir, "ProtocolError",
                       stage, << >>, << >>, << >>, << >>)
    /\ conns' = Dropped(conns, cur.socket, << >>)
    /\ cur' = NoTransfer
    /\ pc' = "exit"
    /\ UNCHANGED disk

\* A read failed: the error is logged and `continue` starts the next
\* iteration; the socket is dropped.
DecodeError(stage) ==
    /\ last' = Attempt(conns, cur.socket, cur.save_dir, "ProtocolError",
                       stage, << >>, << >>, << >>, << >>)
    /\ conns' = Dropped(conns, cur.socket, << >>)
    /\ cur' = NoTransfer
    /\ pc' = "poll_hotkey"
    /\ UNCHANGED disk

(***************************************************************************)
(* run_server: the main loop (lines 180-264).                              *)
(***************************************************************************)
\* Mutant of ServerMatches: every hotkey event counts as the binding's.
ServerMatches_Any(id) == id \in EventIds

\* event.id == hotkey.id()
ServerMatches(id) == id = ServerHotkey

\* hotkey_channel.try_recv() and the comparison of the event's id.
PollHotkey ==
    /\ pc = "poll_hotkey"
    /\ IF hotkey_channel = << >>
       THEN /\ pc' = "poll_queue"
            /\ UNCHANGED << hotkey_channel, hist >>
       ELSE /\ hotkey_channel' = Tail(hotkey_channel)
            /\ hist' = [ hist EXCEPT !.server_event = Head(hotkey_channel) ]
            /\ pc' = IF ServerMatches(Head(hotkey_channel))
                     THEN "pick_folder" ELSE "poll_queue"
    /\ UNCHANGED << env, conns, backlog, apc, tx_socket, queue, save_path,
                    cur, disk, last >>
    /\ UNCHANGED clientVars

\* Mutant of Picked: a cancelled picker clears the destination.
Picked_Clears(picked) == picked

\* The destination after pick_folder() returned `picked`.
Picked(picked) == IF picked # None THEN picked ELSE save_path

\* FileDialog::pick_folder() returns: Some(path) or None (cancelled).
PickFolder ==
    /\ pc = "pick_folder"
    /\ \E picked \in { None } \cup { Some(d) : d \in PickDirs } :
        /\ save_path' = Picked(picked)
        /\ hist' = [ hist EXCEPT !.picked = picked ]
    /\ pc' = "poll_queue"
    /\ UNCHANGED << env, conns, backlog, apc, tx_socket, queue,
                    hotkey_channel, cur, disk, last >>
    /\ UNCHANGED clientVars

\* Mutant of PollQueue: without a destination, what has arrived on the
\* socket is read and discarded before the error response is written.
PollQueue_Drains ==
    /\ pc = "poll_queue"
    /\ IF queue = << >>
       THEN /\ pc' = "sleep"
            /\ UNCHANGED << queue, cur, conns, last, hist >>
       ELSE /\ queue' = Tail(queue)
            /\ hist' = [ hist EXCEPT !.handed = Append(@, Head(queue)) ]
            /\ IF save_path # None
               THEN /\ cur' = [ NoTransfer EXCEPT !.socket = Head(queue),
                                                  !.save_dir = save_path ]
                    /\ pc' = "read_filename_len"
                    /\ UNCHANGED << conns, last >>
               ELSE LET read == Consumed(conns, Head(queue),
                                         Len(conns[Head(queue)].inbuf))
                    IN  /\ last' = Attempt(read, Head(queue), save_path,
                                           "NoDestinationConfigured", "none",
                                           ErrorResponse, << >>, << >>,
                                           << >>)
                        /\ conns' = Dropped(read, Head(queue), ErrorResponse)
                        /\ cur' = NoTransfer
                        /\ pc' = "sleep"
    /\ UNCHANGED << env, backlog, apc, tx_socket, hotkey_channel, save_path,
                    disk >>
    /\ UNCHANGED clientVars

\* Mutant of PollQueue: without a destination the file is received into a
\* default directory.
PollQueue_DefaultDir ==
    /\ pc = "poll_queue"
    /\ IF queue = << >>
       THEN /\ pc' = "sleep"
            /\ UNCHANGED << queue, cur, hist >>
       ELSE /\ queue' = Tail(queue)
            /\ hist' = [ hist EXCEPT !.handed = Append(@, Head(queue)) ]
            /\ cur' = [ NoTransfer EXCEPT
                          !.socket = Head(queue),
                          !.save_dir = IF save_path # None THEN save_path
                                       ELSE Some(<< 47, 100 >>) ]
            /\ pc' = "read_filename_len"
    /\ UNCHANGED << env, conns, last, backlog, apc, tx_socket,
                    hotkey_channel, save_path, disk >>
    /\ UNCHANGED clientVars

\* Mutant of PollQueue: the queue is left alone until a destination is set.
PollQueue_WaitsForDestination ==
    /\ pc = "poll_queue"
    /\ IF queue = << >> \/ save_path = None
       THEN /\ pc' = "sleep"
            /\ UNCHANGED << queue, cur, hist >>
       ELSE /\ queue' = Tail(queue)
            /\ hist' = [ hist EXCEPT !.handed = Append(@, Head(queue)) ]
            /\ cur' = [ NoTransfer EXCEPT !.socket = Head(queue),
                                          !.save_dir = save_path ]
            /\ pc' = "read_filename_len"
    /\ UNCHANGED << env, conns, last, backlog, apc, tx_socket,
                    hotkey_channel, save_path, disk >>
    /\ UNCHANGED clientVars

\* rx.try_recv(); with a socket, the snapshot of save_path and the branch
\* on it.  Without a destination the error response is written and the
\* socket dropped without a read.
PollQueue ==
    /\ pc = "poll_queue"
    /\ IF queue = << >>
       THEN /\ pc' = "sleep"
            /\ UNCHANGED << queue, cur, conns, last, hist >>
       ELSE /\ queue' = Tail(queue)
            /\ hist' = [ hist EXCEPT !.handed = Append(@, Head(queue)) ]
            /\ IF save_path # None
               THEN /\ cur' = [ NoTransfer EXCEPT !.socket = Head(queue),
                                                  !.save_dir = save_path ]
                    /\ pc' = "read_filename_len"
                    /\ UNCHANGED << conns, last >>
               ELSE /\ last' = Attempt(conns, Head(queue), save_path,
                                       "NoDestinationConfigured", "none",
                                       ErrorResponse, << >>, << >>, << >>)
                    /\ conns' = Dropped(conns, Head(queue), ErrorResponse)
                    /\ cur' = NoTransfer
                    /\ pc' = "sleep"
    /\ UNCHANGED << env, backlog, apc, tx_socket, hotkey_channel, save_path,
                    disk >>
    /\ UNCHANGED clientVars

\* socket.read_exact(&mut filename_len_buf)
ReadFilenameLen ==
    /\ pc = "read_filename_len"
    /\ ReadReturns(cur.socket, LenFieldBytes)
    /\ IF ReadOk(cur.socket, LenFieldBytes)
       THEN /\ cur' = [ cur EXCEPT !.filename_len =
                          from_be_bytes(SubSeq(conns[cur.socket].inbuf, 1,
                                               LenFieldBytes)) ]
            /\ conns' = Consumed(conns, cur.socket, LenFieldBytes)
            /\ pc' = "read_filedata_len"
            /\ UNCHANGED << disk, last >>
       ELSE DecodeError("filename_len")
    /\ UNCHANGED << env, backlog, apc, tx_socket, queue, hotkey_channel,
                    save_path, hist >>
    /\ UNCHANGED clientVars

\* socket.read_exact(&mut filedata_len_buf)
ReadFiledataLen ==
    /\ pc = "read_filedata_len"
    /\ ReadReturns(cur.socket, LenFieldBytes)
    /\ IF ReadOk(cur.socket, LenFieldBytes)
       THEN /\ cur' = [ cur EXCEPT !.filedata_len =
                          from_be_bytes(SubSeq(conns[cur.socket].inbuf, 1,
                                               LenFieldBytes)) ]
            /\ conns' = Consumed(conns, cur.socket, LenFieldBytes)
            /\ pc' = "read_filename"
            /\ UNCHANGED << disk, last >>
       ELSE DecodeError("filedata_len")
    /\ UNCHANGED << env, backlog, apc, tx_socket, queue, hotkey_channel,
                    save_path, hist >>
    /\ UNCHANGED clientVars

\* socket.read_exact(&mut filename_buf) and String::from_utf8(filename_buf)
ReadFilename ==
    /\ pc = "read_filename"
    /\ ReadReturns(cur.socket, cur.filename_len)
    /\ IF ~ReadOk(cur.socket, cur.filename_len)
       THEN DecodeError("filename")
       ELSE LET name ==
                  from_utf8(SubSeq(conns[cur.socket].inbuf, 1,
                                   cur.filename_len))
                read == Consumed(conns, cur.socket, cur.filename_len)
            IN  IF name = None
                THEN /\ last' = Attempt(read, cur.socket, cur.save_dir,
                                        "ProtocolError", "filename_utf8",
                                        << >>, << >>, << >>, << >>)
                     /\ conns' = Dropped(read, cur.socket, << >>)
                     /\ cur' = NoTransfer
                     /\ pc' = "poll_hotkey"
                     /\ UNCHANGED disk
                ELSE /\ cur' = [ cur EXCEPT !.filename = name[1] ]
                     /\ conns' = read
                     /\ pc' = "read_filedata"
                     /\ UNCHANGED << disk, last >>
    /\ UNCHANGED << env, backlog, apc, tx_socket, queue, hotkey_channel,
                    save_path, hist >>
    /\ UNCHANGED clientVars

\* Mutant of Response: "OK" is written whether or not the file was.
Response_Always(written) == OkResponse

\* What the receiver writes back after fs::write returned.
Response(written) == IF written THEN OkResponse ELSE << >>

\* socket.read_exact(&mut filedata), then save_dir.join(&filename),
\* fs::write and, if the file was written, the "OK" response.
ReadFiledata ==
    /\ pc = "read_filedata"
    /\ ReadReturns(cur.socket, cur.filedata_len)
    /\ IF ~ReadOk(cur.socket, cur.filedata_len)
       THEN DecodeError("filedata")
       ELSE LET filedata ==
                  SubSeq(conns[cur.socket].inbuf, 1, cur.filedata_len)
                read == Consumed(conns, cur.socket, cur.filedata_len)
                path == join(cur.save_dir[1], cur.filename)
                written == FsWriteOk(path)
            IN  /\ disk' = IF written THEN FsWrite(disk, path, filedata)
                           ELSE disk
                /\ last' = Attempt(read, cur.socket, cur.save_dir,
                                   IF written THEN "Success" ELSE "IOError",
                                   "none", Response(written), cur.filename,
                                   path, filedata)
                /\ conns' = Dropped(read, cur.socket, Response(written))
                /\ cur' = NoTransfer
                /\ pc' = "sleep"
    /\ UNCHANGED << env, backlog, apc, tx_socket, queue, hotkey_channel,
                    save_path, hist >>
    /\ UNCHANGED clientVars

\* Mutant of Sleep: the next iteration polls the queue first.
Sleep_ToQueue ==
    /\ pc = "sleep"
    /\ pc' = "poll_queue"
    /\ UNCHANGED << env, conns, backlog, apc, tx_socket, queue,
                    hotkey_channel, save_path, cur, disk, last, hist >>
    /\ UNCHANGED clientVars

\* tokio::time::sleep(Duration::from_millis(100)).await
Sleep ==
    /\ pc = "sleep"
    /\ pc' = "poll_hotkey"
    /\ UNCHANGED << env, conns, backlog, apc, tx_socket, queue,
                    hotkey_channel, save_path, cur, disk, last, hist >>
    /\ UNCHANGED clientVars

(***************************************************************************)
(* The sender's machine.                                                   *)
(***************************************************************************)
\* Files the file picker can return: path -> content ("/s/e" empty, "/s/a"
\* one byte, "/s/b" one byte more than a u32 counts).
SenderFiles ==
    << 47, 115, 47, 101 >> :> << >>
    @@ << 47, 115, 47, 97 >> :> << 7 >>
    @@ << 47, 115, 47, 98 >> :> [ i \in 1 .. U32Modulus + 1 |-> i ]
\* A path the picker can return and fs::read cannot read.
UnreadablePath == << 47, 115, 47, 120 >>
PickFiles == DOMAIN SenderFiles \cup { UnreadablePath }

\* A key combination is pressed: an event reaches the sender process.
ClientKey ==
    /\ env.events > 0 /\ env.ckeys > 0
    /\ \E id \in EventIds :
        client_channel' = Append(client_channel, id)
    /\ env' = [ env EXCEPT !.events = @ - 1, !.ckeys = @ - 1 ]
    /\ UNCHANGED << conns, cpc, snd, result, hist >>
    /\ UNCHANGED serverVars

\* The connections cs after the sender dropped its socket c.
Closed(cs, c) ==
    [ cs EXCEPT ![c] =
        IF ~@.open THEN Gone(@.owner)
        ELSE [ @ EXCEPT !.eof = TRUE, !.resp = << >> ] ]

\* What send_file returned.
Returned(value, stage, response) ==
    [ value |-> value, stage |-> stage, response |-> response ]

(***************************************************************************)
(* run_client: the main loop (lines 293-316).                              *)
(***************************************************************************)
\* event.id == hotkey.id()
ClientMatches(id) == id = ClientHotkey

\* hotkey_channel.try_recv() and the comparison of the event's id.
ClientPollHotkey ==
    /\ cpc = "poll_hotkey"
    /\ IF client_channel = << >>
       THEN /\ cpc' = "sleep"
            /\ UNCHANGED << client_channel, hist >>
       ELSE /\ client_channel' = Tail(client_channel)
            /\ hist' = [ hist EXCEPT !.client_event = Head(client_channel) ]
            /\ cpc' = IF ClientMatches(Head(client_channel))
                      THEN "pick_file" ELSE "sleep"
    /\ UNCHANGED << env, conns, snd, result >>
    /\ UNCHANGED serverVars

\* FileDialog::pick_file() returns: Some(path) or None (cancelled).
PickFile ==
    /\ cpc = "pick_file"
    /\ \E picked \in { None } \cup { Some(f) : f \in PickFiles } :
        IF picked = None
        THEN /\ cpc' = "sleep"
             /\ UNCHANGED snd
        ELSE /\ cpc' = "connect"
             /\ snd' = [ NoSend EXCEPT !.path = picked[1] ]
    /\ UNCHANGED << env, conns, client_channel, result, hist >>
    /\ UNCHANGED serverVars

\* tokio::time::sleep(Duration::from_millis(100)).await
ClientSleep ==
    /\ cpc = "sleep"
    /\ cpc' = "poll_hotkey"
    /\ UNCHANGED << env, conns, client_channel, snd, result, hist >>
    /\ UNCHANGED serverVars

(***************************************************************************)
(* send_file (lines 319-361).                                              *)
(***************************************************************************)
\* TcpStream::connect(server_addr).await: the connection is established
\* with the receiver's listener, or the connect fails.
Connect ==
    /\ cpc = "connect"
    /\ \E ok \in BOOLEAN :
        IF ok
        THEN /\ conns' = Append(conns, NewConn("client"))
             /\ backlog' = Append(backlog, Len(conns) + 1)
             /\ snd' = [ snd EXCEPT !.socket = Len(conns) + 1 ]
             /\ cpc' = "read_file"
             /\ hist' = [ hist EXCEPT !.dest_at_connect = save_path ]
             /\ UNCHANGED result
        ELSE /\ result' = Returned("Err", "connect", << >>)
             /\ snd' = NoSend
             /\ cpc' = "sleep"
             /\ UNCHANGED << conns, backlog, hist >>
    /\ UNCHANGED << env, apc, tx_socket, queue, hotkey_channel, save_path,
                    pc, cur, disk, last, client_channel >>

\* file_path.file_name()...to_string_lossy().into_owned() and
\* fs::read(file_path); `?` on either returns the error and drops the socket.
ReadFile ==
    /\ cpc = "read_file"
    /\ IF file_name(snd.path) = None
       THEN /\ result' = Returned("Err", "file_name", << >>)
            /\ conns' = Closed(conns, snd.socket)
            /\ snd' = NoSend
            /\ cpc' = "sleep"
       ELSE IF snd.path \notin DOMAIN SenderFiles
       THEN /\ result' = Returned("Err", "read", << >>)
            /\ conns' = Closed(conns, snd.socket)
            /\ snd' = NoSend
            /\ cpc' = "sleep"
       ELSE /\ snd' = [ snd EXCEPT
                          !.filename = to_string_lossy(file_name(snd.path)[1]),
                          !.filedata = SenderFiles[snd.path] ]
            /\ cpc' = "write_filename_len"
            /\ UNCHANGED << conns, result >>
    /\ UNCHANGED << env, client_channel, hist >>
    /\ UNCHANGED serverVars

\* Mutant of WriteAll: after a failed write send_file starts over with a
\* new connection.
WriteAll_Retries(bytes, stage, next) ==
    /\ \E ok \in IF conns[snd.socket].open THEN { TRUE } ELSE BOOLEAN :
        IF ok
        THEN /\ conns' = IF conns[snd.socket].open
                         THEN [ conns EXCEPT ![snd.socket] =
                                  [ @ EXCEPT !.inbuf = @ \o bytes,
                                             !.wire = @ \o bytes ] ]
                         ELSE conns
             /\ cpc' = next
             /\ UNCHANGED << snd, result >>
        ELSE /\ result' = Returned("Err", stage, << >>)
             /\ conns' = Closed(conns, snd.socket)
             /\ snd' = [ NoSend EXCEPT !.path = snd.path ]
             /\ cpc' = "connect"
    /\ UNCHANGED << env, client_channel, hist >>
    /\ UNCHANGED serverVars

\* socket.write_all(bytes).await? : the bytes are appended to the stream;
\* once the receiver has dropped its socket the write may fail instead, and
\* bytes it accepts are discarded.
WriteAll(bytes, stage, next) ==
    /\ \E ok \in IF conns[snd.socket].open THEN { TRUE } ELSE BOOLEAN :
        IF ok
        THEN /\ conns' = IF conns[snd.socket].open
                         THEN [ conns EXCEPT ![snd.socket] =
                                  [ @ EXCEPT !.inbuf = @ \o bytes,
                                             !.wire = @ \o bytes ] ]
                         ELSE conns
             /\ cpc' = next
             /\ UNCHANGED << snd, result >>
        ELSE /\ result' = Returned("Err", stage, << >>)
             /\ conns' = Closed(conns, snd.socket)
             /\ snd' = NoSend
             /\ cpc' = "sleep"
    /\ UNCHANGED << env, client_channel, hist >>
    /\ UNCHANGED serverVars

\* Mutant of WriteFilenameLen: the length of the payload is written first.
WriteFilenameLen_WritesDataLen ==
    /\ cpc = "write_filename_len"
    /\ WriteAll(to_be_bytes(as_u32(Len(snd.filedata))), "write_filename_len",
                "write_filedata_len")

\* let filename_len = filename.len() as u32; write_all(to_be_bytes)
WriteFilenameLen ==
    /\ cpc = "write_filename_len"
    /\ WriteAll(to_be_bytes(as_u32(Len(snd.filename))), "write_filename_len",
                "write_filedata_len")

\* let filedata_len = filedata.len() as u32; write_all(to_be_bytes)
WriteFiledataLen ==
    /\ cpc = "write_filedata_len"
    /\ WriteAll(to_be_bytes(as_u32(Len(snd.filedata))), "write_filedata_len",
                "write_filename")

\* socket.write_all(filename.as_bytes())
WriteFilename ==
    /\ cpc = "write_filename"
    /\ WriteAll(snd.filename, "write_filename", "write_filedata")

\* socket.write_all(&filedata)
WriteFiledata ==
    /\ cpc = "write_filedata"
    /\ WriteAll(snd.filedata, "write_filedata", "read_response")

\* Mutant of ReadResponse: a response other than "OK" is returned as Err.
ReadResponse_Parses ==
    /\ cpc = "read_response"
    /\ conns[snd.socket].resp # << >> \/ ~conns[snd.socket].open
    /\ \E ok \in IF conns[snd.socket].open THEN { TRUE } ELSE BOOLEAN :
        result' = IF ok /\ conns[snd.socket].resp = OkResponse
                  THEN Returned("Ok", "none", conns[snd.socket].resp)
                  ELSE Returned("Err", "read_response", << >>)
    /\ conns' = Closed(conns, snd.socket)
    /\ snd' = NoSend
    /\ cpc' = "sleep"
    /\ UNCHANGED << env, client_channel, hist >>
    /\ UNCHANGED serverVars

\* socket.read(&mut response).await? : returns the bytes that have arrived
\* (none at end of stream), or fails if the connection was reset; then
\* Ok(()) and the socket is dropped.
ReadResponse ==
    /\ cpc = "read_response"
    /\ conns[snd.socket].resp # << >> \/ ~conns[snd.socket].open
    /\ \E ok \in IF conns[snd.socket].open THEN { TRUE } ELSE BOOLEAN :
        result' = IF ok
                  THEN Returned("Ok", "none", conns[snd.socket].resp)
                  ELSE Returned("Err", "read_response", << >>)
    /\ conns' = Closed(conns, snd.socket)
    /\ snd' = NoSend
    /\ cpc' = "sleep"
    /\ UNCHANGED << env, client_channel, hist >>
    /\ UNCHANGED serverVars

(***************************************************************************)
(* The system.                                                             *)
(***************************************************************************)
AcceptTask == Accept \/ TxSend

ServerLoop ==
    \/ PollHotkey
    \/ PickFolder
    \/ PollQueue
    \/ ReadFilenameLen
    \/ ReadFiledataLen
    \/ ReadFilename
    \/ ReadFiledata
    \/ Sleep

ClientLoop ==
    \/ ClientPollHotkey
    \/ PickFile
    \/ Connect
    \/ ReadFile
    \/ WriteFilenameLen
    \/ WriteFiledataLen
    \/ WriteFilename
    \/ WriteFiledata
    \/ ReadResponse
    \/ ClientSleep

Environment == PeerConnect \/ PeerSend \/ ServerKey \/ ClientKey

Next == AcceptTask \/ ServerLoop \/ ClientLoop \/ Environment

Spec == Init /\ [][Next]_vars

\* The same system with its scheduling: the tokio runtime keeps running the
\* accept task and the main loop of run_server, and the main loop of
\* run_client (with send_file); the dialogs return; a raw peer that has
\* connected sends what it is going to send.
FairSpec ==
    /\ Spec
    /\ WF_vars(AcceptTask)
    /\ WF_vars(ServerLoop)
    /\ WF_vars(ClientLoop)
    /\ WF_vars(PeerSend)

(***************************************************************************)
(* Properties.                                                             *)
(***************************************************************************)
\* The frame layout of the wire protocol, read off a whole byte string w:
\* the name and the payload the two length fields delimit.
WireNameLen(w) == from_be_bytes(SubSeq(w, 1, 4))
WireDataLen(w) == from_be_bytes(SubSeq(w, 5, 8))
WireName(w) == SubSeq(w, 9, 8 + WireNameLen(w))
WireData(w) ==
    SubSeq(w, 9 + WireNameLen(w), 8 + WireNameLen(w) + WireDataLen(w))
\* w holds all the bytes of a frame.
Complete(w) ==
    /\ Len(w) >= 8
    /\ Len(w) >= 8 + WireNameLen(w) + WireDataLen(w)
\* w starts with a complete frame whose name is UTF-8.
HasFrame(w) == Complete(w) /\ Utf8Valid(WireName(w))

\* A transfer attempt has just finished (a step of the main loop).
Finishes == last' # last
\* The last attempt was made with a destination set.
Decoded == last.socket # 0 /\ last.save_dir # None

\* C1 (as claimed): what the receiver decodes from the bytes send_file
\* wrote is the name and the payload send_file was sending.
C1_RoundTrip ==
    ( /\ cpc = "read_response"
      /\ last.socket = snd.socket
      /\ last.outcome \in { "Success", "IOError" } )
    => ( last.name = snd.filename /\ last.data = snd.filedata )

\* C2 (as claimed): a connection dequeued with a destination set and
\* carrying a complete valid frame leaves the file destinationDir/name with
\* the payload as content, and "OK" on the connection.
C2_Original ==
    ( Decoded /\ HasFrame(last.wire) )
    => LET path == join(last.save_dir[1], WireName(last.wire))
       IN  /\ path \in DOMAIN disk
           /\ disk[path] = WireData(last.wire)
           /\ last.response = << 79, 75 >>

\* C2 (amended): ... if fs::write to destinationDir/name succeeds, the file
\* there holds exactly the payload, whatever was there before, and "OK" is
\* written to the connection after it; if it fails, no file is left at that
\* path and nothing is written to the connection.
C2_ReceiveWritesFile ==
    ( Decoded /\ HasFrame(last.wire) )
    => LET path == join(last.save_dir[1], WireName(last.wire))
       IN  IF FsWriteOk(path)
           THEN /\ last.outcome = "Success"
                /\ path \in DOMAIN disk
                /\ disk[path] = WireData(last.wire)
                /\ last.response = << 79, 75 >>
           ELSE /\ last.outcome = "IOError"
                /\ path \notin DOMAIN disk
                /\ last.response = << >>

\* A file was received over an older file of the same path.
C2_Witness ==
    /\ last.outcome = "Success"
    /\ last.socket = 2
    /\ last.path = << 47, 100, 47, 97 >>
    /\ disk[last.path] = << 7 >>
    /\ hist.picked = << << 47, 100 >> >>
    /\ env.events = 0

\* C3: a connection dequeued while no destination has been chosen is
\* answered "ERROR: No save directory selected" and dropped: nothing is
\* read from it, no file is written, the outcome is NoDestinationConfigured.
C3_NoDestination ==
    [][ ( hist'.handed # hist.handed /\ save_path = None )
        => /\ last'.socket = Head(queue)
           /\ last'.outcome = "NoDestinationConfigured"
           /\ last'.nread = 0
           /\ last'.response =
                << 69, 82, 82, 79, 82, 58, 32, 78, 111, 32, 115, 97, 118,
                   101, 32, 100, 105, 114, 101, 99, 116, 111, 114, 121, 32,
                   115, 101, 108, 101, 99, 116, 101, 100 >>
           /\ disk' = disk
           /\ ~conns'[Head(queue)].open
           /\ cur' = NoTransfer ]_vars

\* The sender had written its frame when its connection was answered so.
C3_Witness ==
    /\ last.outcome = "NoDestinationConfigured"
    /\ Len(last.wire) > 8
    /\ last.nread = 0

\* The main loop is inside one of its four read_exact calls.
Reading ==
    pc \in { "read_filename_len", "read_filedata_len", "read_filename",
             "read_filedata" }

\* C4: if the peer closes the stream before the whole frame has arrived, or
\* the name is not UTF-8, the attempt ends as a decode error: the read
\* returns (no hang), the loop goes on with its next iteration (no panic),
\* the socket is dropped and never handed out again (no retry), nothing is
\* answered and no file is written.
C4_DecodeError ==
    /\ [] ( ( Reading /\ conns[cur.socket].eof ) => ENABLED ServerLoop )
    /\ [] ( ( Decoded /\ ~HasFrame(last.wire) )
            => /\ last.outcome = "ProtocolError"
               /\ last.response = << >>
               /\ cur.socket # last.socket
               /\ tx_socket # last.socket
               /\ \A i \in 1 .. Len(queue) : queue[i] # last.socket
               /\ \A i \in 1 .. Len(backlog) : backlog[i] # last.socket
               /\ ~conns[last.socket].open )
    /\ [][ ( Finishes /\ last'.save_dir # None /\ ~HasFrame(last'.wire) )
           => /\ disk' = disk
              /\ cur' = NoTransfer
              /\ pc' = "poll_hotkey"
              /\ queue' = queue ]_vars

\* The peer closed its stream inside the payload, after both length fields
\* and the name had been read.
C4_Witness ==
    /\ last.outcome = "ProtocolError"
    /\ last.stage = "filedata"
    /\ last.nread > 8
    /\ ~Complete(last.wire)

\* C5 (as claimed): once the receiver has finished with the connection of a
\* send_file that connected when the destination was already set, the file
\* destination/name holds the bytes of the source file.  (No later step
\* hands that connection out again, so "eventually" is decided here.)
C5_Delivery ==
    ( /\ cpc = "read_response"
      /\ last.socket = snd.socket
      /\ hist.dest_at_connect # None )
    => LET path == join(last.save_dir[1], snd.filename)
       IN  /\ last.save_dir # None
           /\ path \in DOMAIN disk
           /\ disk[path] = SenderFiles[snd.path]

\* C6: the queue never holds more than QueueCapacity connections; when it
\* is full the accept task, holding the connection it has just accepted,
\* can take no step (it accepts nothing further) until the main loop takes
\* one off the queue; and every accepted connection is, in order, handed to
\* the main loop, in the queue, or held by the accept task: none is lost.
C6_Backpressure ==
    /\ [] ( Len(queue) <= QueueCapacity )
    /\ [] ( ( apc = "send" /\ Len(queue) = QueueCapacity )
            => ~ENABLED AcceptTask )
    /\ [] ( hist.accepted =
              hist.handed \o queue
              \o ( IF apc = "send" THEN << tx_socket >> ELSE << >> ) )
    /\ [][ ( apc = "send" /\ Len(queue) = QueueCapacity )
           => ( /\ hist'.accepted = hist.accepted
                /\ tx_socket' = tx_socket
                /\ ( queue' = queue \/ queue' = Tail(queue) ) ) ]_vars

\* The accept task waits with a connection at a full queue, a further
\* connection waits in the listener, and the main loop has taken one before.
C6_Witness ==
    /\ apc = "send"
    /\ Len(queue) = QueueCapacity
    /\ backlog # << >>
    /\ Len(hist.handed) = 1

\* C7: a hotkey event whose id is not the id of the process's binding is
\* ignored.  Receiver: the directory picker is open only after an event
\* with the binding's id, and taking any other event off the channel leads
\* straight to the queue poll with the destination unchanged.  Sender: the
\* file picker and send_file run only after an event with the binding's id,
\* and taking any other event off the channel opens no connection.
C7_NonMatchingIgnored ==
    /\ [] ( pc = "pick_folder" => hist.server_event = ServerHotkey )
    /\ [] ( cpc \notin { "poll_hotkey", "sleep" }
            => hist.client_event = ClientHotkey )
    /\ [][ ( Len(hotkey_channel') < Len(hotkey_channel)
             /\ Head(hotkey_channel) # ServerHotkey )
           => ( /\ pc' = "poll_queue"
                /\ save_path' = save_path ) ]_vars
    /\ [][ ( Len(client_channel') < Len(client_channel)
             /\ Head(client_channel) # ClientHotkey )
           => ( /\ cpc' = "sleep"
                /\ conns' = conns
                /\ backlog' = backlog
                /\ snd' = snd ) ]_vars
    /\ [][ save_path' # save_path
           => hist.server_event = ServerHotkey ]_vars
    /\ [][ Len(conns') > Len(conns) /\ conns'[Len(conns')].owner = "client"
           => hist.client_event = ClientHotkey ]_vars

\* Each process has taken the other role's hotkey event off its channel.
C7_Witness ==
    /\ hist.server_event = ClientHotkey
    /\ hist.client_event = ServerHotkey
    /\ hotkey_channel = << >>
    /\ client_channel = << >>
    /\ save_path = None
    /\ conns = << >>

\* C8: the destination is absent at first; it changes only when the folder
\* picker, opened by an event with the binding's id, returns a directory,
\* and then it is that directory; every other step, a cancelled picker
\* included, leaves it as it is, so once present it is never absent again.
C8_DestinationFrame ==
    /\ save_path = None
    /\ [][ save_path' # save_path
           => ( /\ pc = "pick_folder"
                /\ hist.server_event = ServerHotkey
                /\ hist'.picked # None
                /\ save_path' = hist'.picked ) ]_vars
    /\ [][ ( pc = "pick_folder" /\ pc' # pc /\ hist'.picked = None )
           => save_path' = save_path ]_vars
    /\ [][ save_path # None => save_path' # None ]_vars

\* The picker was cancelled while a destination was set, and it is still
\* set.
C8_Witness ==
    /\ hist.server_event = ServerHotkey
    /\ pc # "pick_folder"
    /\ hist.picked = None
    /\ save_path # None

\* The states of the main loop of run_server.
LoopStates ==
    { "poll_hotkey", "pick_folder", "poll_queue", "read_filename_len",
      "read_filedata_len", "read_filename", "read_filedata", "sleep" }

\* C9: a transfer that ends in an error is contained.  The step that ends
\* it drops the connection, writes no file, leaves the destination alone,
\* changes the queue at most by taking that connection off it, and leaves
\* the main loop at its sleep or its hotkey poll; the main loop is always
\* in one of its states, and after its sleep goes on to the hotkey poll;
\* and after an earlier error a complete valid frame whose path can be
\* written is still received with outcome Success.
C9_ErrorsContained ==
    /\ [][ ( Finishes /\ last'.outcome \in Failures )
           => ( /\ ~conns'[last'.socket].open
                /\ cur' = NoTransfer
                /\ disk' = disk
                /\ save_path' = save_path
                /\ ( \/ queue' = queue
                     \/ ( queue' = Tail(queue)
                          /\ Head(queue) = last'.socket ) )
                /\ pc' \in { "sleep", "poll_hotkey" } ) ]_vars
    /\ [] ( pc \in LoopStates )
    /\ [] ( pc = "sleep" => ENABLED Sleep )
    /\ [] ( pc = "poll_hotkey" => ENABLED PollHotkey )
    /\ [] ( ( /\ last.earlier_failure
              /\ Decoded
              /\ HasFrame(last.wire)
              /\ FsWriteOk(join(last.save_dir[1], WireName(last.wire))) )
            => ( /\ last.outcome = "Success"
                 /\ disk[last.path] = WireData(last.wire) ) )

\* A file was received after an earlier attempt had ended in an error.
C9_Witness ==
    /\ last.earlier_failure
    /\ last.outcome = "Success"
    /\ last.path \in DOMAIN disk

\* C10: the accept task does not depend on the destination.  Whether or not
\* one has been chosen, it can accept a connection that waits in the
\* listener and can pass on the one it holds whenever the queue holds fewer
\* than QueueCapacity; its steps leave the destination alone; and without a
\* destination the main loop never waits in a read, so it can always take
\* its next step, and each connection it takes off the queue makes room.
C10_AcceptIndependent ==
    /\ [] ( ( apc = "accept" /\ backlog # << >> ) => ENABLED Accept )
    /\ [] ( ( apc = "send" /\ Len(queue) < QueueCapacity )
            => ENABLED TxSend )
    /\ [] ( save_path = None => ( ~Reading /\ ENABLED ServerLoop ) )
    /\ [][ ( apc' # apc ) => save_path' = save_path ]_vars
    /\ [][ ( save_path = None /\ hist'.handed # hist.handed )
           => ( Len(queue') = Len(queue) - 1 /\ pc' = "sleep" ) ]_vars

\* No destination was ever chosen, and the accept task has accepted more
\* connections than the queue and its own hand can hold.
C10_Witness ==
    /\ save_path = None
    /\ Len(hist.accepted) = QueueCapacity + 2
    /\ Len(queue) = QueueCapacity
    /\ apc = "send"

\* The sequence s holds no element twice.
NoRepeat(s) == \A i, j \in 1 .. Len(s) : s[i] = s[j] => i = j
\* The responses run_server writes.
Responses ==
    { << >>, << 79, 75 >>,
      << 69, 82, 82, 79, 82, 58, 32, 78, 111, 32, 115, 97, 118, 101, 32,
         100, 105, 114, 101, 99, 116, 111, 114, 121, 32, 115, 101, 108, 101,
         99, 116, 101, 100 >> }

\* C11: connections are taken off the queue in the order they were
\* accepted, each at most once; a connection gets one transfer attempt,
\* which ends with its socket dropped, and at most one response; a
\* connection taken off the queue is never on the queue again and never
\* the subject of a second attempt.
C11_Lifecycle ==
    /\ [] ( hist.accepted =
              hist.handed \o queue
              \o ( IF apc = "send" THEN << tx_socket >> ELSE << >> ) )
    /\ [] NoRepeat(hist.accepted)
    /\ [] ( \A i \in 1 .. Len(queue) : conns[queue[i]].open )
    /\ [] ( cur.socket # 0
            => ( /\ cur.socket = hist.handed[Len(hist.handed)]
                 /\ conns[cur.socket].open ) )
    /\ [] ( \A c \in 1 .. Len(conns) : conns[c].resp \in Responses )
    /\ [][ Finishes
           => ( /\ last'.socket = hist'.handed[Len(hist'.handed)]
                /\ conns[last'.socket].open
                /\ ~conns'[last'.socket].open
                /\ cur' = NoTransfer ) ]_vars
    /\ [][ \A c \in 1 .. Len(conns) :
             ( conns'[c].resp # conns[c].resp /\ conns'[c].resp # << >> )
             => ( Finishes /\ last'.socket = c /\ conns[c].resp = << >> )
         ]_vars

\* Three connections were accepted, taken off the queue in that order and
\* each given its attempt.
C11_Witness ==
    /\ hist.accepted = << 1, 2, 3 >>
    /\ hist.handed = << 1, 2, 3 >>
    /\ last.socket = 3
    /\ cur = NoTransfer
    /\ \A c \in 1 .. 3 : ~conns[c].open

\* C12 (as claimed): the main loop takes no connection off the queue while
\* the destination is absent.
C12_Original ==
    [][ hist'.handed # hist.handed => save_path # None ]_vars

\* The bytes the receiver has read from all its sockets so far.
RECURSIVE TotalRead(_, _)
TotalRead(cs, n) == IF n = 0 THEN 0 ELSE cs[n].nread + TotalRead(cs, n - 1)

\* C12 (amended): the main loop takes connections off the queue whether or
\* not a destination is set, but it receives from them (reads from the
\* socket, writes a file) only once a destination has been chosen: a
\* connection taken off the queue while the destination is absent is
\* dropped unread in that same step.
C12_ReceivesOnlyWithDestination ==
    /\ [] ( ( Reading \/ cur.socket # 0 )
            => ( save_path # None /\ cur.save_dir # None ) )
    /\ [][ ( disk' # disk
             \/ TotalRead(conns', Len(conns)) > TotalRead(conns, Len(conns)) )
           => save_path # None ]_vars
    /\ [][ ( hist'.handed # hist.handed /\ save_path = None )
           => ( /\ ~conns'[Head(queue)].open
                /\ cur' = NoTransfer
                /\ pc' = "sleep" ) ]_vars

\* The connection before was turned away for want of a destination; with a
\* destination chosen since, the main loop is now reading from the next.
C12_Witness ==
    /\ last.outcome = "NoDestinationConfigured"
    /\ save_path # None
    /\ pc = "read_filedata"

\* C13: "OK" is written to a connection only in an attempt whose fs::write
\* succeeded, the file then holding the decoded payload; an attempt that
\* fails in one of the four reads, in the UTF-8 conversion or in fs::write
\* writes nothing to the connection before it is dropped.
C13_ResponseOrdering ==
    /\ [][ ( Finishes /\ last'.response = << 79, 75 >> )
           => ( /\ last'.outcome = "Success"
                /\ last'.path \in DOMAIN disk'
                /\ disk'[last'.path] = last'.data
                /\ pc = "read_filedata" ) ]_vars
    /\ [][ ( Finishes /\ last'.outcome \in { "ProtocolError", "IOError" } )
           => ( /\ last'.response = << >>
                /\ conns'[last'.socket].resp = << >>
                /\ ~conns'[last'.socket].open ) ]_vars
    /\ [] ( \A c \in 1 .. Len(conns) :
              conns[c].resp = << 79, 75 >>
              => ( /\ \E i \in 1 .. Len(hist.handed) : hist.handed[i] = c
                   /\ cur.socket # c
                   /\ disk # << >> ) )

\* fs::write failed for a frame that was read completely: no response.
C13_Witness ==
    /\ last.outcome = "IOError"
    /\ last.response = << >>
    /\ Complete(last.wire)
    /\ last.path \notin DOMAIN disk

\* The four fields in the order of the wire protocol, with the lengths as
\* 32-bit values.
FieldsInOrder(name, data) ==
    << to_be_bytes(Len(name) % U32Modulus),
       to_be_bytes(Len(data) % U32Modulus), name, data >>
\* The first k of them, one after the other.
FirstFields(name, data, k) ==
    LET f == FieldsInOrder(name, data)
        cat[i \in 0 .. 4] == IF i = 0 THEN << >> ELSE cat[i - 1] \o f[i]
    IN  cat[k]
\* How many fields send_file has written when it is at a given place.
FieldsWritten ==
    [ read_file |-> 0, write_filename_len |-> 0, write_filedata_len |-> 1,
      write_filename |-> 2, write_filedata |-> 3, read_response |-> 4 ]
\* p is a prefix of s.
IsPrefix(p, s) == Len(p) <= Len(s) /\ SubSeq(s, 1, Len(p)) = p
\* send_file is running on a connection.
Sending == cpc \in DOMAIN FieldsWritten

\* C14: what send_file has put on its connection is, at each place, exactly
\* the fields before that place in the order name_length, payload_length,
\* name, payload (less only what a receiver that already dropped the socket
\* no longer took); nothing is written before the connect and the file read
\* are done; and when the connect, the file read or a write fails,
\* send_file returns Err from that place, having written nothing further.
C14_FieldOrder ==
    /\ [] ( Sending
            => LET w == conns[snd.socket].wire
                   e == FirstFields(snd.filename, snd.filedata,
                                    FieldsWritten[cpc])
               IN  /\ IsPrefix(w, e)
                   /\ conns[snd.socket].open => w = e )
    /\ [] ( cpc \in { "connect", "read_file" } => snd.filedata = << >> )
    /\ [] ( cpc \in { "write_filename_len", "write_filedata_len",
                      "write_filename", "write_filedata" }
            => ( /\ snd.socket # 0
                 /\ snd.path \in DOMAIN SenderFiles
                 /\ snd.filedata = SenderFiles[snd.path] ) )
    /\ [][ ( cpc \in { "connect" } \cup DOMAIN FieldsWritten
             /\ cpc' = "sleep" /\ cpc # "read_response" )
           => ( /\ result'.value = "Err"
                /\ IF cpc = "read_file"
                   THEN result'.stage \in { "file_name", "read" }
                   ELSE result'.stage = cpc
                /\ snd' = NoSend
                /\ backlog' = backlog
                /\ Len(conns') = Len(conns)
                /\ ( cpc # "connect"
                     => IsPrefix(conns'[snd.socket].wire,
                                 conns[snd.socket].wire) ) ) ]_vars

\* send_file has written all four fields of a file with a one-byte payload
\* to a connection the receiver has not read from yet.
C14_Witness ==
    /\ cpc = "read_response"
    /\ conns[snd.socket].open
    /\ conns[snd.socket].nread = 0
    /\ conns[snd.socket].wire = << 0, 0, 0, 1, 0, 0, 0, 1, 97, 7 >>

\* C15: once the connect, the file read and the four writes have succeeded,
\* send_file returns Ok whenever its one read of the response succeeds,
\* with whatever bytes the read returned, the error text and no bytes at
\* all included; it returns Err only when that read itself fails.
C15_SuccessWhateverResponse ==
    /\ [] ( ( cpc = "read_response"
              /\ ( conns[snd.socket].resp # << >>
                   \/ ~conns[snd.socket].open ) )
            => ENABLED ( ReadResponse /\ result'.value = "Ok" ) )
    /\ [][ ( cpc = "read_response" /\ cpc' # cpc )
           => ( /\ cpc' = "sleep"
                /\ \/ /\ result'.value = "Ok"
                      /\ result'.response = conns[snd.socket].resp
                   \/ /\ result'.value = "Err"
                      /\ result'.stage = "read_response"
                      /\ ~conns[snd.socket].open ) ]_vars
    /\ [] ( result.value = "Ok" => result.response \in Responses )

\* send_file returned Ok with no response bytes: the receiver had read the
\* whole frame, failed to write the file and closed the connection.
C15_Witness ==
    /\ result.value = "Ok"
    /\ result.response = << >>
    /\ last.outcome = "IOError"
    /\ last.path = << 47, 101, 47, 101 >>

\* C16 (as claimed): the main loop comes to its hotkey poll only from its
\* sleep, in every iteration, those whose transfer failed included.
C16_SleepEveryIteration ==
    [][ ( pc' = "poll_hotkey" /\ pc # "poll_hotkey" ) => pc = "sleep" ]_vars

\* The connections send_file has opened and not yet dropped.
OutboundOpen ==
    { c \in 1 .. Len(conns) : conns[c].owner = "client" /\ ~conns[c].eof }

\* C17: the sender opens a connection only in send_file's connect, one per
\* call; send_file is called only after the file picker, opened for one
\* event with the binding's id, returned a file; a cancelled picker leads
\* to the sleep with no connection opened; when send_file returns, Ok or
\* Err, the loop goes to its sleep and calls it again only for another
\* event and pick; and at most one connection of the sender is open.
C17_OneConnectionPerTrigger ==
    /\ [] ( OutboundOpen \subseteq { snd.socket } )
    /\ [] ( Sending => OutboundOpen = { snd.socket } )
    /\ [][ ( Len(conns') > Len(conns)
             /\ conns'[Len(conns')].owner = "client" )
           => ( /\ cpc = "connect"
                /\ cpc' = "read_file"
                /\ Len(conns') = Len(conns) + 1
                /\ snd'.socket = Len(conns')
                /\ OutboundOpen = { } ) ]_vars
    /\ [][ ( cpc' = "connect" /\ cpc # "connect" )
           => ( cpc = "pick_file" /\ snd'.path \in PickFiles ) ]_vars
    /\ [][ ( cpc' = "pick_file" /\ cpc # "pick_file" )
           => ( /\ cpc = "poll_hotkey"
                /\ client_channel # << >>
                /\ Head(client_channel) = ClientHotkey
                /\ client_channel' = Tail(client_channel) ) ]_vars
    /\ [][ ( cpc = "pick_file" /\ cpc' = "sleep" )
           => ( conns' = conns /\ backlog' = backlog /\ snd' = snd ) ]_vars
    /\ [][ ( /\ Sending \/ cpc = "connect"
             /\ cpc' # cpc
             /\ cpc' \notin DOMAIN FieldsWritten )
           => ( /\ cpc' = "sleep"
                /\ snd' = NoSend
                /\ OutboundOpen' = { }
                /\ Len(conns') = Len(conns) ) ]_vars

\* A write of send_file failed on the first connection; the loop went on,
\* and only for a second event and pick a second connection was opened.
C17_Witness ==
    /\ Len(conns) = 2
    /\ conns[1].owner = "client"
    /\ conns[2].owner = "client"
    /\ result.value = "Err"
    /\ result.stage \in { "write_filename_len", "write_filedata_len",
                          "write_filename", "write_filedata" }
    /\ OutboundOpen = { 2 }
    /\ client_channel = << >>

\* The number of bytes the read_exact the main loop is in asks for.
Wanted ==
    IF pc \in { "read_filename_len", "read_filedata_len" } THEN 4
    ELSE IF pc = "read_filename" THEN cur.filename_len
    ELSE cur.filedata_len
\* The main loop waits in a read for bytes of a peer that has not closed.
Waiting ==
    /\ Reading
    /\ Len(conns[cur.socket].inbuf) < Wanted
    /\ ~conns[cur.socket].eof

\* C18: while the main loop has a connection in hand, no step takes a
\* hotkey event off the channel, changes the destination or the snapshot
\* of it, or takes another connection off the queue, and the transfer goes
\* on with the same socket until it ends; meanwhile the accept task can
\* still accept and, below QueueCapacity, pass connections on; and while
\* the peer has neither sent what the read asks for nor closed, the main
\* loop can take no step at all.
C18_NoCancellation ==
    /\ [] ( Reading <=> cur.socket # 0 )
    /\ [][ cur.socket # 0
           => ( /\ Len(hotkey_channel') >= Len(hotkey_channel)
                /\ hist'.server_event = hist.server_event
                /\ save_path' = save_path
                /\ hist'.handed = hist.handed
                /\ Len(queue') >= Len(queue)
                /\ \/ cur' = NoTransfer /\ Finishes
                   \/ /\ cur'.socket = cur.socket
                      /\ cur'.save_dir = cur.save_dir
                      /\ last' = last ) ]_vars
    /\ [] ( ( Reading /\ apc = "accept" /\ backlog # << >> )
            => ENABLED Accept )
    /\ [] ( ( Reading /\ apc = "send" /\ Len(queue) < QueueCapacity )
            => ENABLED TxSend )
    /\ [] ( Waiting => ~ENABLED ServerLoop )

\* A peer sent the first length field and then nothing, without closing:
\* the main loop waits in its second read while the accept task has put
\* the next connection on the queue.
C18_Witness ==
    /\ pc = "read_filedata_len"
    /\ Waiting
    /\ conns[cur.socket].sent
    /\ Len(queue) = 1

\* The order of the steps of one iteration of the main loop: from each
\* place, the places the loop can be at next.
IterationOrder ==
    [ poll_hotkey |-> { "pick_folder", "poll_queue" },
      pick_folder |-> { "poll_queue" },
      poll_queue |-> { "read_filename_len", "sleep" },
      read_filename_len |-> { "read_filedata_len", "poll_hotkey" },
      read_filedata_len |-> { "read_filename", "poll_hotkey" },
      read_filename |-> { "read_filedata", "poll_hotkey" },
      read_filedata |-> { "sleep", "poll_hotkey" },
      sleep |-> { "poll_hotkey" } ]

\* C19: an iteration polls the hotkey channel, then (after the picker, if
\* the event had the binding's id) the queue; it takes at most one event
\* and at most one connection; the destination a connection is received
\* with is the destination at the step that took it off the queue, which
\* is the directory the picker returned last, this iteration's included;
\* and the file is written under that snapshot, which stays what it was.
C19_PollOrderAndSnapshot ==
    /\ [][ pc' # pc => pc' \in IterationOrder[pc] ]_vars
    /\ [][ hotkey_channel' # hotkey_channel
           => \/ Len(hotkey_channel') = Len(hotkey_channel) + 1
              \/ /\ pc = "poll_hotkey"
                 /\ hotkey_channel' = Tail(hotkey_channel) ]_vars
    /\ [][ hist'.handed # hist.handed
           => ( /\ pc = "poll_queue"
                /\ Len(hist'.handed) = Len(hist.handed) + 1
                /\ IF save_path # None
                   THEN cur'.save_dir = save_path /\ cur'.socket = Head(queue)
                   ELSE last'.save_dir = None ) ]_vars
    /\ [] ( hist.picked # None => save_path = hist.picked )
    /\ [] ( Reading => cur.save_dir = save_path )
    /\ [][ ( Finishes /\ last'.outcome \in { "Success", "IOError" } )
           => ( /\ last'.save_dir = cur.save_dir
                /\ last'.path = join(cur.save_dir[1], last'.name) ) ]_vars

\* A connection was turned away while no destination was set; then the
\* picker returned "/e", and the next connection has just been taken off
\* the queue with "/e" as its destination.
C19_Witness ==
    /\ pc = "read_filename_len"
    /\ cur.save_dir = << << 47, 101 >> >>
    /\ hist.picked = cur.save_dir
    /\ last.outcome = "NoDestinationConfigured"
    /\ conns[cur.socket].nread = 0

\* The main loop waits for bytes of a raw peer that has sent all it is
\* going to send and has not closed: a peer that neither completes its
\* frame nor closes.
Stalled == Waiting /\ conns[cur.socket].sent

\* C20: with both loops scheduled fairly, the dialogs returning and no peer
\* stalling for ever, every accepted connection is in the end taken off the
\* queue and its attempt finished (from some point on nothing accepted is
\* left in the queue, in the accept task's hand or in a transfer), and an
\* accept task waiting at a full queue gets to pass its connection on.
C20_IntakeLiveness ==
    \/ <>[] Stalled
    \/ /\ <>[] ( hist.accepted = hist.handed /\ cur = NoTransfer )
       /\ ( apc = "send" /\ Len(queue) = QueueCapacity ) ~> ( apc = "accept" )

\* All of QueueCapacity + 2 accepted connections, the one that waited at
\* the full queue among them, have been taken off the queue and attempted.
C20_Witness ==
    /\ Len(hist.accepted) = QueueCapacity + 2
    /\ hist.handed = hist.accepted
    /\ cur = NoTransfer
    /\ queue = << >>

====
